---- MODULE Spec2Model ----
(***************************************************************************)
(* A model of WireFrame.c: the edge-list loader (readWireFrame), the       *)
(* matrix product (matMul), the six matrix builders, the transform         *)
(* composer (computeTransformationMatrix), the renderer (drawWireframe)    *)
(* and the driver (generateSVGfile, main).                                 *)
(*                                                                         *)
(* Numbers.  A C float is modelled by an exact rational <<n, d>> in lowest *)
(* terms with d > 0; float rounding is not modelled.  The value <<0, 0>>   *)
(* is the content of a cell that was never written (an indeterminate       *)
(* value): it stands for every bit pattern the cell may hold, and every    *)
(* arithmetic result that depends on it is indeterminate again.            *)
(***************************************************************************)
EXTENDS Integers, Sequences, FiniteSets, TLC

VARIABLES
    rot,            \* build configuration: ROTATION_ANGLE_X/Y/Z in degrees
    inputExists,    \* environment: fopen(WIREFRAME_INPUT_FILENAME, "r") succeeds
    outputWritable, \* environment: fopen(HTML5_SVG_OUTPUT_FILENAME, "w") succeeds
    input,          \* content of input.txt: a sequence of lines of tokens
    inPos,          \* read position of inFile in the token stream (1-based)
    pc,             \* position of the run
    wireFrame,      \* main: Matrix wireFrame[MAX_WIREFRAME_EDGES]
    edge,           \* the local `edge` of readWireFrame / drawWireframe
    noEdges,        \* main: int noEdges
    outFile,        \* generateSVGfile: FILE *outFile ("unset", "NULL", "open", "closed")
    outText,        \* what has been written to output.html
    console,        \* what has been written to stdout
    M,              \* generateSVGfile: Matrix M
    R,              \* drawWireframe: Matrix R
    inst,           \* which of the four compute/draw pairs of generateSVGfile is running
    exitStatus,     \* "running", "EXIT_SUCCESS" or "EXIT_FAILURE"
    uninitRead,     \* ghost: some cell was read before it was written
    slots,          \* ghost: the slot indices readWireFrame handed to fscanf
    opens,          \* ghost: <<number of fopen calls on input, on output>>
    mm,             \* the arguments and result of one matMul call
    xf              \* the arguments of one compose-and-render call

vars == <<rot, inputExists, outputWritable, input, inPos, pc, wireFrame, edge,
          noEdges, outFile, outText, console, M, R, inst, exitStatus,
          uninitRead, slots, opens, mm, xf>>

(***************************************************************************)
(* Rational arithmetic                                                     *)
(***************************************************************************)
Abs(n) == IF n < 0 THEN -n ELSE n

RECURSIVE Gcd(_, _)
Gcd(a, b) == IF b = 0 THEN a ELSE Gcd(b, a % b)

U == <<0, 0>>

IsNum(a) == a[2] # 0

Norm(n, d) ==
    LET g == Gcd(Abs(n), d)
    IN  <<n \div g, d \div g>>

Rat(n) == <<n, 1>>

Frac(n, d) == Norm(n, d)

RAdd(a, b) ==
    IF ~IsNum(a) \/ ~IsNum(b) THEN U
    ELSE LET g == Gcd(a[2], b[2])
             l == (a[2] \div g) * b[2]
         IN  Norm(a[1] * (l \div a[2]) + b[1] * (l \div b[2]), l)

RMul(a, b) ==
    IF ~IsNum(a) \/ ~IsNum(b) THEN U
    ELSE LET g1 == Gcd(Abs(a[1]), b[2])
             g2 == Gcd(Abs(b[1]), a[2])
         IN  Norm((a[1] \div g1) * (b[1] \div g2), (a[2] \div g2) * (b[2] \div g1))

RNeg(a) == IF IsNum(a) THEN <<-a[1], a[2]>> ELSE U

(***************************************************************************)
(* Matrix: float [MATRIX_MAX][MATRIX_MAX]                                  *)
(***************************************************************************)
MATRIX_MAX == 4

Idx == 0 .. (MATRIX_MAX - 1)

Uninit == [i \in Idx |-> [j \in Idx |-> U]]

\* the assignment outM[i][j] = v
Set(m, i, j, v) == [m EXCEPT ![i][j] = v]

\* the one element of a singleton set; {e : a \in {A}} lets a name the value of A
The(S) == CHOOSE v \in S : TRUE

\* the inner loop of matMul: C[x][y] = 0, then z = 0 .. n-1 in increasing order
RECURSIVE Accumulate(_, _, _, _, _)
Accumulate(A, B, x, y, n) ==
    IF n = 0 THEN Rat(0)
    ELSE RAdd(Accumulate(A, B, x, y, n - 1), RMul(A[x][n - 1], B[n - 1][y]))

matMul_NoClear(A, B, ARows, ACols, BCols, C) ==
    The({ [x \in Idx |-> [y \in Idx |->
              IF x < ARows /\ y < BCols
              THEN RAdd(c[x][y], Accumulate(a, b, x, y, ACols))
              ELSE c[x][y]]] : a \in {A}, b \in {B}, c \in {C} })

\* the cells with x < ARows and y < BCols are assigned, the others keep C's content
matMul(A, B, ARows, ACols, BCols, C) ==
    The({ [x \in Idx |-> [y \in Idx |->
              IF x < ARows /\ y < BCols
              THEN Accumulate(a, b, x, y, ACols)
              ELSE c[x][y]]] : a \in {A}, b \in {B}, c \in {C} })

\* ghost: the cells matMul reads, A[x][z] and B[z][y], include an unwritten one
matMulReadsUninit(A, B, ARows, ACols, BCols) ==
    \E a \in {A}, b \in {B} : \E x \in Idx, y \in Idx, z \in Idx :
        /\ x < ARows /\ y < BCols /\ z < ACols
        /\ (~IsNum(a[x][z]) \/ ~IsNum(b[z][y]))

(***************************************************************************)
(* Program constants                                                       *)
(***************************************************************************)
OBJECT_COLOR_0 == "magenta"

OBJECT_COLOR_1 == "cyan"

OBJECT_COLOR_2 == "blue"

OBJECT_COLOR_3 == "purple"

\* the rotation angles, in degrees (the source multiplies by M_PI/180)
ROTATION_ANGLE_X == 20

ROTATION_ANGLE_Y == 0

ROTATION_ANGLE_Z == -45

POINTS_PER_EDGE == 6

\* the capacity of main's wireFrame array; 5000 in the source, scaled down here
MAX_WIREFRAME_EDGES == 2

(***************************************************************************)
(* cos and sin of <math.h>, tabulated to two decimals for the angles the   *)
(* model uses (angle in degrees)                                           *)
(***************************************************************************)
cos(angle) ==
    CASE angle = 0   -> Rat(1)
      [] angle = 20  -> Frac(94, 100)
      [] angle = 37  -> Frac(80, 100)
      [] angle = 90  -> Rat(0)
      [] angle = -45 -> Frac(71, 100)

sin(angle) ==
    CASE angle = 0   -> Rat(0)
      [] angle = 20  -> Frac(34, 100)
      [] angle = 37  -> Frac(60, 100)
      [] angle = 90  -> Rat(1)
      [] angle = -45 -> Frac(-71, 100)

(***************************************************************************)
(* The matrix builders.  Each assigns the listed cells of outM and leaves  *)
(* the others as they were.                                                *)
(***************************************************************************)
\* rows 0 .. Len(rows)-1 of outM := rows
Fill(outM, rows) ==
    [i \in Idx |-> [j \in Idx |->
        IF i < Len(rows) THEN rows[i + 1][j + 1] ELSE outM[i][j]]]

projectionMatrix_Row0Only(outM) ==
    Fill(outM, << <<Rat(1), Rat(0), Rat(0), Rat(0)>> >>)

projectionMatrix_XY(outM) ==
    Fill(outM, << <<Rat(1), Rat(0), Rat(0), Rat(0)>>,
                  <<Rat(0), Rat(1), Rat(0), Rat(0)>> >>)

projectionMatrix(outM) ==
    Fill(outM, << <<Rat(1), Rat(0), Rat(0), Rat(0)>>,
                  <<Rat(0), Rat(0), Rat(1), Rat(0)>> >>)

rotationMatrixX(angle, outM) ==
    Fill(outM, << <<Rat(1), Rat(0),     Rat(0),           Rat(0)>>,
                  <<Rat(0), cos(angle), RNeg(sin(angle)), Rat(0)>>,
                  <<Rat(0), sin(angle), cos(angle),       Rat(0)>>,
                  <<Rat(0), Rat(0),     Rat(0),           Rat(1)>> >>)

rotationMatrixY(angle, outM) ==
    Fill(outM, << <<cos(angle), Rat(0), RNeg(sin(angle)), Rat(0)>>,
                  <<Rat(0),     Rat(1), Rat(0),           Rat(0)>>,
                  <<sin(angle), Rat(0), cos(angle),       Rat(0)>>,
                  <<Rat(0),     Rat(0), Rat(0),           Rat(1)>> >>)

rotationMatrixZ(angle, outM) ==
    Fill(outM, << <<cos(angle), RNeg(sin(angle)), Rat(0), Rat(0)>>,
                  <<sin(angle), cos(angle),       Rat(0), Rat(0)>>,
                  <<Rat(0),     Rat(0),           Rat(1), Rat(0)>>,
                  <<Rat(0),     Rat(0),           Rat(0), Rat(1)>> >>)

scalingMatrix(xs, ys, zs, outM) ==
    Fill(outM, << <<xs,     Rat(0), Rat(0), Rat(0)>>,
                  <<Rat(0), ys,     Rat(0), Rat(0)>>,
                  <<Rat(0), Rat(0), zs,     Rat(0)>>,
                  <<Rat(0), Rat(0), Rat(0), Rat(1)>> >>)

translationMatrix(xt, yt, zt, outM) ==
    Fill(outM, << <<Rat(1), Rat(0), Rat(0), xt>>,
                  <<Rat(0), Rat(1), Rat(0), yt>>,
                  <<Rat(0), Rat(0), Rat(1), zt>>,
                  <<Rat(0), Rat(0), Rat(0), Rat(1)>> >>)

(***************************************************************************)
(* computeTransformationMatrix.  The locals P, S, T, X, Y, Z, YZ, XYZ,     *)
(* SXYZ, TSXYZ are unwritten at entry; the result is the new content of M. *)
(***************************************************************************)
\* the locals after the six builder calls and the first four products
composeLocals(scale, xt, yt, zt) ==
    LET X     == rotationMatrixX(rot[1], Uninit)
        Y     == rotationMatrixY(rot[2], Uninit)
        Z     == rotationMatrixZ(rot[3], Uninit)
        P     == projectionMatrix(Uninit)
        S     == scalingMatrix(scale, scale, RNeg(scale), Uninit)
        T     == translationMatrix(xt, yt, zt, Uninit)
        YZ    == matMul(Y, Z, 4, 4, 4, Uninit)
        XYZ   == matMul(X, YZ, 4, 4, 4, Uninit)
        SXYZ  == matMul(S, XYZ, 4, 4, 4, Uninit)
        TSXYZ == matMul(T, SXYZ, 4, 4, 4, Uninit)
    IN  [X |-> X, Y |-> Y, Z |-> Z, P |-> P, S |-> S, T |-> T,
         YZ |-> YZ, XYZ |-> XYZ, SXYZ |-> SXYZ, TSXYZ |-> TSXYZ]

computeTransformationMatrix_NoFlip(Min, scale, xt, yt, zt) ==
    LET L == composeLocals(scale, xt, yt, zt)
        S == scalingMatrix(scale, scale, scale, Uninit)
    IN  matMul(L.P, matMul(L.T, matMul(S, L.XYZ, 4, 4, 4, Uninit), 4, 4, 4, Uninit),
               2, 4, 4, Min)

computeTransformationMatrix(Min, scale, xt, yt, zt) ==
    LET L == composeLocals(scale, xt, yt, zt)
    IN  matMul(L.P, L.TSXYZ, 2, 4, 4, Min)

\* ghost: one of the five matMul calls reads an unwritten cell
composeReadsUninit(scale, xt, yt, zt) ==
    \E L \in {composeLocals(scale, xt, yt, zt)} :
        \/ matMulReadsUninit(L.Y, L.Z, 4, 4, 4)
        \/ matMulReadsUninit(L.X, L.YZ, 4, 4, 4)
        \/ matMulReadsUninit(L.S, L.XYZ, 4, 4, 4)
        \/ matMulReadsUninit(L.T, L.SXYZ, 4, 4, 4)
        \/ matMulReadsUninit(L.P, L.TSXYZ, 2, 4, 4)

(***************************************************************************)
(* printf's %.<k>f: the decimal nearest to the value, ties to even.        *)
(* Format(r, 10) is the text of "%.1f", Format(r, 100) of "%.2f", as       *)
(* <<sign, digits>>: <<"-", 5>> at scale 10 is the text "-0.5"; a negative *)
(* value that rounds to zero prints "-0.0".                                *)
(***************************************************************************)
RoundHalfEven(n, d) ==
    LET q == n \div d
        r == n - q * d
    IN  IF 2 * r < d THEN q
        ELSE IF 2 * r > d THEN q + 1
        ELSE IF q % 2 = 0 THEN q ELSE q + 1

Format(r, scale10) ==
    IF ~IsNum(r) THEN <<"?", 0>>
    ELSE <<IF r[1] < 0 THEN "-" ELSE "", RoundHalfEven(Abs(r[1]) * scale10, r[2])>>

\* the <line .../> element writeEdge prints
writeEdge(x1, y1, x2, y2, colour) ==
    [tag |-> "line",
     x1 |-> Format(x1, 10), y1 |-> Format(y1, 10),
     x2 |-> Format(x2, 10), y2 |-> Format(y2, 10),
     stroke |-> colour]

\* the arguments drawWireframe passes to writeEdge and printf
edgeSegment_RowMajor(Rm) == <<Rm[0][0], Rm[0][1], Rm[1][0], Rm[1][1]>>

edgeSegment(Rm) == <<Rm[0][0], Rm[1][0], Rm[0][1], Rm[1][1]>>

(***************************************************************************)
(* input.txt and fscanf                                                    *)
(*                                                                         *)
(* The file is a sequence of lines; a line is a sequence of tokens, each a *)
(* numeric literal <<"num", v>> or a non-numeric word <<"bad", 0>>.  The   *)
(* stream fscanf sees is the lines' tokens, each line followed by a        *)
(* newline <<"nl", 0>>.                                                    *)
(***************************************************************************)
NumTok(v) == <<"num", v>>

BadTok == <<"bad", 0>>

NL == <<"nl", 0>>

Line(rec) == [i \in 1 .. Len(rec) |-> NumTok(rec[i])]

RECURSIVE Flatten(_)
Flatten(lines) ==
    IF lines = <<>> THEN <<>>
    ELSE Head(lines) \o <<NL>> \o Flatten(Tail(lines))

\* the conversion %f applies to a numeric literal
ParseFloat(tok) == Rat(tok[2])

\* %f first skips white space, newlines included
RECURSIVE SkipWhite(_, _)
SkipWhite(s, p) ==
    IF p <= Len(s) /\ s[p][1] = "nl" THEN SkipWhite(s, p + 1) ELSE p

\* the conversions of one fscanf call, left to right, until one fails
RECURSIVE ScanFloats(_, _, _, _)
ScanFloats(s, p, n, acc) ==
    IF n = 0 THEN [vals |-> acc, pos |-> p, eof |-> FALSE]
    ELSE LET q == SkipWhite(s, p)
         IN  IF q > Len(s) THEN [vals |-> acc, pos |-> q, eof |-> TRUE]
             ELSE IF s[q][1] # "num" THEN [vals |-> acc, pos |-> q, eof |-> FALSE]
             ELSE ScanFloats(s, q + 1, n - 1, Append(acc, ParseFloat(s[q])))

\* fscanf(inFile, "%f %f %f %f %f %f", ...): the values assigned, the new
\* position, and the return value (EOF = -1 at end of input before any match)
fscanf(s, p, n) ==
    LET r == ScanFloats(s, p, n, <<>>)
    IN  [vals |-> r.vals, pos |-> r.pos,
         ret |-> IF r.eof /\ r.vals = <<>> THEN -1 ELSE Len(r.vals)]

\* the cells the six conversions assign, in argument order
ScanTargets == << <<0, 0>>, <<1, 0>>, <<2, 0>>, <<0, 1>>, <<1, 1>>, <<2, 1>> >>

RECURSIVE StoreScanned(_, _, _)
StoreScanned(m, vals, k) ==
    IF k > Len(vals) THEN m
    ELSE StoreScanned(Set(m, ScanTargets[k][1], ScanTargets[k][2], vals[k]), vals, k + 1)

\* readWireFrame, line 327: the record was read whole
recordComplete_AtLeastFive(noItemsRead) == noItemsRead >= POINTS_PER_EDGE - 1

recordComplete(noItemsRead) == noItemsRead = POINTS_PER_EDGE

\* readWireFrame, line 332: wireFrame is full
wireFrameFull_OffByOne(e) == e > MAX_WIREFRAME_EDGES

wireFrameFull(e) == e = MAX_WIREFRAME_EDGES

\* wireFrame[e]; a slot outside the array holds indeterminate values
Slot(wf, e) == IF e \in DOMAIN wf THEN wf[e] ELSE Uninit

\* wireFrame[e] = m; a store outside the array does not land in it
SetSlot(wf, e, m) == IF e \in DOMAIN wf THEN [wf EXCEPT ![e] = m] ELSE wf

(***************************************************************************)
(* generateSVGfile's four compute/draw pairs                               *)
(***************************************************************************)
Instances_ColoursSwapped ==
    << [scale |-> 200, xt |-> 125, yt |-> 0, zt |-> 125, col |-> OBJECT_COLOR_0],
       [scale |-> 150, xt |-> 375, yt |-> 0, zt |-> 125, col |-> OBJECT_COLOR_2],
       [scale |-> 100, xt |-> 125, yt |-> 0, zt |-> 375, col |-> OBJECT_COLOR_1],
       [scale |-> 50,  xt |-> 375, yt |-> 0, zt |-> 375, col |-> OBJECT_COLOR_3] >>

Instances ==
    << [scale |-> 200, xt |-> 125, yt |-> 0, zt |-> 125, col |-> OBJECT_COLOR_0],
       [scale |-> 150, xt |-> 375, yt |-> 0, zt |-> 125, col |-> OBJECT_COLOR_1],
       [scale |-> 100, xt |-> 125, yt |-> 0, zt |-> 375, col |-> OBJECT_COLOR_2],
       [scale |-> 50,  xt |-> 375, yt |-> 0, zt |-> 375, col |-> OBJECT_COLOR_3] >>

CANVAS_SIZE_X == 500

CANVAS_SIZE_Y == 500

Prologue == [tag |-> "prologue", width |-> CANVAS_SIZE_X, height |-> CANVAS_SIZE_Y]

Epilogue == [tag |-> "epilogue"]

(***************************************************************************)
(* The run: main -> readWireFrame -> generateSVGfile                       *)
(***************************************************************************)
\* exit(EXIT_FAILURE) after printing msg
Die(msg) ==
    /\ console' = Append(console, msg)
    /\ exitStatus' = "EXIT_FAILURE"
    /\ pc' = "halted"

\* readWireFrame, lines 310-314: fopen fails
ReadOpenFail ==
    /\ pc = "main" /\ ~inputExists
    /\ opens' = <<opens[1] + 1, opens[2]>>
    /\ Die("Error: Unable to open input file")
    /\ UNCHANGED <<rot, inputExists, outputWritable, input, inPos, wireFrame, edge,
                   noEdges, outFile, outText, M, R, inst, uninitRead, slots, mm, xf>>

\* readWireFrame, lines 310-317: fopen succeeds
ReadOpen ==
    /\ pc = "main" /\ inputExists
    /\ opens' = <<opens[1] + 1, opens[2]>>
    /\ inPos' = 1
    /\ edge' = 0
    /\ pc' = "readLoop"
    /\ UNCHANGED <<rot, inputExists, outputWritable, input, wireFrame, noEdges,
                   outFile, outText, console, M, R, inst, exitStatus, uninitRead,
                   slots, mm, xf>>

\* readWireFrame, lines 319-333: one iteration of the loop
ReadRecord ==
    /\ pc = "readLoop"
    /\ LET s      == fscanf(Flatten(input), inPos, POINTS_PER_EDGE)
           stored == StoreScanned(Slot(wireFrame, edge), s.vals, 1)
       IN  /\ inPos' = s.pos
           /\ slots' = slots \cup {edge}
           /\ IF ~recordComplete(s.ret)
              THEN /\ wireFrame' = SetSlot(wireFrame, edge, stored)
                   /\ edge' = edge
                   /\ pc' = "readClose"
              ELSE /\ wireFrame' = SetSlot(wireFrame, edge,
                                           Set(Set(stored, 3, 0, Rat(1)), 3, 1, Rat(1)))
                   /\ edge' = edge + 1
                   /\ pc' = IF wireFrameFull(edge + 1) THEN "readClose" ELSE "readLoop"
    /\ UNCHANGED <<rot, inputExists, outputWritable, input, noEdges, outFile, outText,
                   console, M, R, inst, exitStatus, uninitRead, opens, mm, xf>>

\* readWireFrame, lines 335-337, and main, line 222: fclose, return edge
ReadReturn ==
    /\ pc = "readClose"
    /\ noEdges' = edge
    /\ pc' = "genOpen"
    /\ UNCHANGED <<rot, inputExists, outputWritable, input, inPos, wireFrame, edge,
                   outFile, outText, console, M, R, inst, exitStatus, uninitRead,
                   slots, opens, mm, xf>>

\* generateSVGfile, line 196: fopen(..., "w") truncates the file when it succeeds
GenOpen ==
    /\ pc = "genOpen"
    /\ opens' = <<opens[1], opens[2] + 1>>
    /\ outFile' = IF outputWritable THEN "open" ELSE "NULL"
    /\ outText' = IF outputWritable THEN <<>> ELSE outText
    /\ pc' = "prologue"
    /\ UNCHANGED <<rot, inputExists, outputWritable, input, inPos, wireFrame, edge,
                   noEdges, console, M, R, inst, exitStatus, uninitRead, slots, mm, xf>>

WritePrologueFail_Continues ==
    /\ pc = "prologue" /\ outFile = "NULL"
    /\ inst' = 1
    /\ pc' = "compute"
    /\ UNCHANGED <<rot, inputExists, outputWritable, input, inPos, wireFrame, edge,
                   noEdges, outFile, outText, console, M, R, exitStatus, uninitRead,
                   slots, opens, mm, xf>>

\* writePrologue, lines 237-240
WritePrologueFail ==
    /\ pc = "prologue" /\ outFile = "NULL"
    /\ Die("writePrologue error: output file == NULL")
    /\ UNCHANGED <<rot, inputExists, outputWritable, input, inPos, wireFrame, edge,
                   noEdges, outFile, outText, M, R, inst, uninitRead, slots, opens,
                   mm, xf>>

\* writePrologue, lines 241-247
WritePrologue ==
    /\ pc = "prologue" /\ outFile # "NULL"
    /\ outText' = Append(outText, Prologue)
    /\ inst' = 1
    /\ pc' = "compute"
    /\ UNCHANGED <<rot, inputExists, outputWritable, input, inPos, wireFrame, edge,
                   noEdges, outFile, console, M, R, exitStatus, uninitRead, slots,
                   opens, mm, xf>>

\* generateSVGfile, lines 200/203/206/209, and the entry of drawWireframe
Compute ==
    /\ pc = "compute"
    /\ LET I == Instances[inst]
       IN  /\ M' = computeTransformationMatrix(M, Rat(I.scale), Rat(I.xt), Rat(I.yt),
                                               Rat(I.zt))
           /\ uninitRead' = (uninitRead \/ composeReadsUninit(Rat(I.scale), Rat(I.xt),
                                                               Rat(I.yt), Rat(I.zt)))
    /\ R' = Uninit
    /\ edge' = 0
    /\ pc' = "draw"
    /\ UNCHANGED <<rot, inputExists, outputWritable, input, inPos, wireFrame, noEdges,
                   outFile, outText, console, inst, exitStatus, slots, opens, mm, xf>>

\* what writeEdge and printf do with the segment seg (lines 184-185, 300-307)
EmitSegment(seg) ==
    IF outFile # "open"
    THEN /\ Die("writeEdge error: output file == NULL")
         /\ UNCHANGED <<outText, edge>>
    ELSE /\ outText' = Append(outText, writeEdge(seg[1], seg[2], seg[3], seg[4],
                                                 Instances[inst].col))
         /\ console' = Append(console, <<Format(seg[1], 100), Format(seg[2], 100),
                                         Format(seg[3], 100), Format(seg[4], 100)>>)
         /\ edge' = edge + 1
         /\ UNCHANGED <<exitStatus, pc>>

DrawEdge_InPlace ==
    /\ pc = "draw" /\ edge < noEdges
    /\ LET E   == Slot(wireFrame, edge)
           Rn  == matMul(M, E, 2, 4, 2, E)
           seg == edgeSegment(Rn)
       IN  /\ wireFrame' = SetSlot(wireFrame, edge, Rn)
           /\ R' = R
           /\ uninitRead' = (\/ uninitRead
                             \/ matMulReadsUninit(M, E, 2, 4, 2)
                             \/ \E i \in 1 .. 4 : ~IsNum(seg[i]))
           /\ EmitSegment(seg)
    /\ UNCHANGED <<rot, inputExists, outputWritable, input, inPos, noEdges,
                   outFile, M, inst, slots, opens, mm, xf>>

\* drawWireframe, lines 180-186: one iteration of the loop
DrawEdge ==
    /\ pc = "draw" /\ edge < noEdges
    /\ LET E   == Slot(wireFrame, edge)
           Rn  == matMul(M, E, 2, 4, 2, R)
           seg == edgeSegment(Rn)
       IN  /\ R' = Rn
           /\ uninitRead' = (\/ uninitRead
                             \/ matMulReadsUninit(M, E, 2, 4, 2)
                             \/ \E i \in 1 .. 4 : ~IsNum(seg[i]))
           /\ EmitSegment(seg)
    /\ UNCHANGED <<rot, inputExists, outputWritable, input, inPos, wireFrame, noEdges,
                   outFile, M, inst, slots, opens, mm, xf>>

\* drawWireframe returns; generateSVGfile goes on to the next pair or to line 212
DrawReturn ==
    /\ pc = "draw" /\ edge >= noEdges
    /\ inst' = IF inst < Len(Instances) THEN inst + 1 ELSE inst
    /\ pc' = IF inst < Len(Instances) THEN "compute" ELSE "epilogue"
    /\ UNCHANGED <<rot, inputExists, outputWritable, input, inPos, wireFrame, edge,
                   noEdges, outFile, outText, console, M, R, exitStatus, uninitRead,
                   slots, opens, mm, xf>>

\* writeEpilogue, lines 250-258
WriteEpilogue ==
    /\ pc = "epilogue"
    /\ IF outFile # "open"
       THEN /\ Die("writeEpilogue error: output file == NULL")
            /\ UNCHANGED outText
       ELSE /\ outText' = Append(outText, Epilogue)
            /\ pc' = "close"
            /\ UNCHANGED <<console, exitStatus>>
    /\ UNCHANGED <<rot, inputExists, outputWritable, input, inPos, wireFrame, edge,
                   noEdges, outFile, M, R, inst, uninitRead, slots, opens, mm, xf>>

\* generateSVGfile, line 214, and main, line 225
GenClose ==
    /\ pc = "close"
    /\ outFile' = "closed"
    /\ exitStatus' = "EXIT_SUCCESS"
    /\ pc' = "done"
    /\ UNCHANGED <<rot, inputExists, outputWritable, input, inPos, wireFrame, edge,
                   noEdges, outText, console, M, R, inst, uninitRead, slots, opens,
                   mm, xf>>

(***************************************************************************)
(* The inputs of the run                                                   *)
(***************************************************************************)
RecA == <<0, 0, 0, 1, 0, 0>>

RecB == <<0, 1, 1, 1, 0, 2>>

\* a record whose sixth number is missing
ShortLine == Line(<<1, 1, 1, 0, 1>>)

\* a record whose sixth field is not a number
FiveAndWord == Line(<<1, 0, 1, 0, 1>>) \o <<BadTok>>

\* a line that is not a record at all
JunkLine == <<BadTok>>

LineKinds == {Line(RecA), Line(RecB), ShortLine, FiveAndWord, JunkLine}

MaxLines == MAX_WIREFRAME_EDGES + 1

Streams == UNION {[1 .. n -> LineKinds] : n \in 0 .. MaxLines}

NoCall == <<>>

Init ==
    /\ rot = <<ROTATION_ANGLE_X, ROTATION_ANGLE_Y, ROTATION_ANGLE_Z>>
    /\ inputExists \in BOOLEAN
    /\ outputWritable \in BOOLEAN
    /\ input \in (IF inputExists THEN Streams ELSE {<<>>})
    /\ inPos = 1
    /\ pc = "main"
    /\ wireFrame = [k \in 0 .. (MAX_WIREFRAME_EDGES - 1) |-> Uninit]
    /\ edge = 0
    /\ noEdges = 0
    /\ outFile = "unset"
    /\ outText = <<>>
    /\ console = <<>>
    /\ M = Uninit
    /\ R = Uninit
    /\ inst = 1
    /\ exitStatus = "running"
    /\ uninitRead = FALSE
    /\ slots = {}
    /\ opens = <<0, 0>>
    /\ mm = NoCall
    /\ xf = NoCall

Next ==
    \/ ReadOpenFail
    \/ ReadOpen
    \/ ReadRecord
    \/ ReadReturn
    \/ GenOpen
    \/ WritePrologueFail
    \/ WritePrologue
    \/ Compute
    \/ DrawEdge
    \/ DrawReturn
    \/ WriteEpilogue
    \/ GenClose

Spec == Init /\ [][Next]_vars

(***************************************************************************)
(* Reference definitions used by the properties                            *)
(***************************************************************************)
Lines == SelectSeq(outText, LAMBDA t : t.tag = "line")

WellFormed(line) == Len(line) = 6 /\ \A i \in 1 .. 6 : line[i][1] = "num"

\* the matrix of the edge x1 y1 z1 x2 y2 z2: columns 0 and 1 hold the two
\* homogeneous endpoints, columns 2 and 3 were never written
EdgeOf(line) ==
    [i \in Idx |-> [j \in Idx |->
        IF j > 1 THEN U
        ELSE IF i = 3 THEN Rat(1)
        ELSE Rat(line[3 * j + i + 1][2])]]

AfterLoad == {"genOpen", "prologue", "compute", "draw", "epilogue", "close", "done"}

\* A[i][0]*v[0] + A[i][1]*v[1] + A[i][2]*v[2] + A[i][3]*v[3] for column j of B
Dot(A, i, B, j) ==
    RAdd(RAdd(RAdd(RMul(A[i][0], B[0][j]), RMul(A[i][1], B[1][j])),
              RMul(A[i][2], B[2][j])),
         RMul(A[i][3], B[3][j]))

\* the point p = <<x, y, z>> rotated about Z, then Y, then X by the angles in rot
Rotated(p) ==
    LET cz == cos(rot[3])  sz == sin(rot[3])
        cy == cos(rot[2])  sy == sin(rot[2])
        cx == cos(rot[1])  sx == sin(rot[1])
        x1 == RAdd(RMul(cz, p[1]), RNeg(RMul(sz, p[2])))
        y1 == RAdd(RMul(sz, p[1]), RMul(cz, p[2]))
        z1 == p[3]
        x2 == RAdd(RMul(cy, x1), RNeg(RMul(sy, z1)))
        y2 == y1
        z2 == RAdd(RMul(sy, x1), RMul(cy, z1))
        x3 == x2
        y3 == RAdd(RMul(cx, y2), RNeg(RMul(sx, z2)))
        z3 == RAdd(RMul(sx, y2), RMul(cx, z2))
    IN  <<x3, y3, z3>>

\* (scale*x' + xt, -scale*z' + zt) for (x', y', z') = Rotated(p)
Screen(scale, xt, zt, p) ==
    \* q names the rotated point
    The({ <<RAdd(RMul(Rat(scale), q[1]), Rat(xt)),
            RAdd(RNeg(RMul(Rat(scale), q[3])), Rat(zt))>> : q \in {Rotated(p)} })

\* endpoint j (0 or 1) of the edge stored in matrix E
Endpoint(E, j) == <<E[0][j], E[1][j], E[2][j]>>

\* the line element for the segment a - b in colour col
LineOf(a, b, col) ==
    [tag |-> "line",
     x1 |-> Format(a[1], 10), y1 |-> Format(a[2], 10),
     x2 |-> Format(b[1], 10), y2 |-> Format(b[2], 10),
     stroke |-> col]

(***************************************************************************)
(* C1.  A run that loaded N >= 1 edges emits exactly 4*N primitives, as    *)
(* four blocks of N in the order (200,125,0,125), (150,375,0,125),         *)
(* (100,125,0,375), (50,375,0,375), block i in colour i of magenta, cyan,  *)
(* blue, purple; at every moment of the run what has been emitted is a     *)
(* prefix of that list, so no primitive of a later instance precedes one   *)
(* of an earlier instance.                                                 *)
(***************************************************************************)
ClaimedInstances ==
    << <<200, 125, 0, 125, "magenta">>, <<150, 375, 0, 125, "cyan">>,
       <<100, 125, 0, 375, "blue">>,    <<50, 375, 0, 375, "purple">> >>

\* the j-th primitive (j >= 1) of a complete run over the loaded edges
ExpectedPrimitive(j) ==
    LET I == ClaimedInstances[((j - 1) \div noEdges) + 1]
        E == wireFrame[(j - 1) % noEdges]
    IN  LineOf(Screen(I[1], I[2], I[4], Endpoint(E, 0)),
               Screen(I[1], I[2], I[4], Endpoint(E, 1)), I[5])


\* C1: the primitives emitted so far are a prefix of the 4*N expected ones, four
\* blocks of N in instance order and colour; a complete run emits all 4*N
C1_FourBlocksInOrder ==
    (pc \in AfterLoad /\ noEdges >= 1) =>
        \E ls \in {Lines} :
            /\ Len(ls) <= 4 * noEdges
            /\ \A j \in 1 .. Len(ls) : ls[j] = ExpectedPrimitive(j)
            /\ (pc \in {"epilogue", "close", "done"} => Len(ls) = 4 * noEdges)
            /\ (pc = "done" =>
                    outText = <<Prologue>> \o ls \o <<Epilogue>>)

C1_Witness ==
    /\ pc = "done" /\ noEdges = MAX_WIREFRAME_EDGES
    /\ Len(Lines) = 4 * noEdges
    /\ wireFrame[0] # wireFrame[1]

(***************************************************************************)
(* C2.  Within one call of drawWireframe, after `edge` iterations exactly  *)
(* `edge` primitives have been emitted by the call, the k-th of them being *)
(* (R[0][0],R[1][0])-(R[0][1],R[1][1]) for R = M * wireFrame[k], in        *)
(* edge-list order.                                                        *)
(***************************************************************************)
\* C2: one primitive per edge, in edge-list order, the k-th from M * wireFrame[k]
C2_OnePrimitivePerEdge ==
    (pc = "draw") =>
        \E ls \in {Lines}, base \in {(inst - 1) * noEdges} :
            /\ Len(ls) = base + edge
            /\ edge <= noEdges
            /\ \A k \in 0 .. (edge - 1) :
                 \E E \in {wireFrame[k]} :
                    ls[base + k + 1] =
                        LineOf(<<Dot(M, 0, E, 0), Dot(M, 1, E, 0)>>,
                               <<Dot(M, 0, E, 1), Dot(M, 1, E, 1)>>,
                               Instances[inst].col)

C2_Witness ==
    /\ pc = "draw" /\ inst = 3 /\ edge = 2 /\ noEdges = 2
    /\ wireFrame[0] # wireFrame[1]
    /\ Lines[Len(Lines)] # Lines[Len(Lines) - 1]

(***************************************************************************)
(* C3.  readWireFrame hands fscanf only slots 0 .. MAX_WIREFRAME_EDGES-1   *)
(* and returns a count in 0 .. MAX_WIREFRAME_EDGES.  When the first        *)
(* MAX_WIREFRAME_EDGES lines of the input are well-formed records it       *)
(* returns MAX_WIREFRAME_EDGES, stores exactly those records, and has read *)
(* nothing beyond them, whether or not more lines follow.                  *)
(***************************************************************************)
\* C3: no slot >= MAX_WIREFRAME_EDGES is used, the count is in 0 .. MAX_WIREFRAME_EDGES,
\* and a record beyond the capacity is ignored
C3_CapacityRespected ==
    /\ slots \subseteq 0 .. (MAX_WIREFRAME_EDGES - 1)
    /\ edge \in 0 .. MAX_WIREFRAME_EDGES
    /\ noEdges \in 0 .. MAX_WIREFRAME_EDGES
    /\ (/\ pc \in AfterLoad
        /\ Len(input) >= MAX_WIREFRAME_EDGES
        /\ \A k \in 1 .. MAX_WIREFRAME_EDGES : WellFormed(input[k]))
       => /\ noEdges = MAX_WIREFRAME_EDGES
          /\ \A k \in 1 .. MAX_WIREFRAME_EDGES : wireFrame[k - 1] = EdgeOf(input[k])
          /\ inPos = 7 * MAX_WIREFRAME_EDGES

C3_Witness ==
    /\ pc = "genOpen"
    /\ Len(input) = MAX_WIREFRAME_EDGES + 1
    /\ \A k \in 1 .. Len(input) : WellFormed(input[k])
    /\ noEdges = MAX_WIREFRAME_EDGES

(***************************************************************************)
(* C4.  k well-formed records (k < MAX_WIREFRAME_EDGES) followed by a      *)
(* record missing its sixth numeric field.                                 *)
(***************************************************************************)
\* the line starts with five numbers and has no sixth number
MissingSixth(line) ==
    /\ Len(line) >= 5
    /\ \A i \in 1 .. 5 : line[i][1] = "num"
    /\ (Len(line) >= 6 => line[6][1] # "num")

\* lines 1 .. k are well-formed records and line k+1 misses its sixth field
TruncatedAt(k) ==
    /\ k < MAX_WIREFRAME_EDGES
    /\ Len(input) > k
    /\ \A j \in 1 .. k : WellFormed(input[j])
    /\ MissingSixth(input[k + 1])

\* the loader returned k, stored lines 1 .. k in order, and signalled nothing
LoadedExactly(k) ==
    /\ noEdges = k
    /\ \A j \in 1 .. k : wireFrame[j - 1] = EdgeOf(input[j])
    /\ exitStatus # "EXIT_FAILURE"
    /\ console = <<>>

\* in the token stream, what follows the five numbers of line k+1 (line breaks
\* skipped) is a number
NumberFollows(k) ==
    \E toks \in {Flatten(input)} :
        \E q \in {SkipWhite(toks, 7 * k + 6)} :
            q <= Len(toks) /\ toks[q][1] = "num"

\* C4 as claimed: whatever follows the short record, readWireFrame stops at
\* it and returns exactly k, the k prior records stored in input order
C4_StopsWhateverFollows ==
    (pc = "genOpen") =>
        \A k \in 0 .. (MAX_WIREFRAME_EDGES - 1) :
            TruncatedAt(k) => LoadedExactly(k)

\* C4 as amended: readWireFrame stops at the short record and returns exactly
\* k, the k prior records stored in input order and no error signalled,
\* provided the five numbers are followed by the end of the stream or by a
\* token that is not a number
C4_StopsUnlessNumberFollows ==
    (pc = "genOpen") =>
        \A k \in 0 .. (MAX_WIREFRAME_EDGES - 1) :
            (TruncatedAt(k) /\ ~NumberFollows(k)) => LoadedExactly(k)

C4_Witness ==
    /\ pc = "genOpen"
    /\ TruncatedAt(1) /\ ~NumberFollows(1)
    /\ Len(input) = 3
    /\ noEdges = 1

(***************************************************************************)
(* C7.  If input.txt cannot be opened the run halts with EXIT_FAILURE      *)
(* before output.html is opened or written; if output.html cannot be       *)
(* opened the run halts with EXIT_FAILURE in writePrologue before anything *)
(* is written.  Neither run exits successfully, neither open is retried,   *)
(* and a halted run takes no further step.                                 *)
(***************************************************************************)
\* C7: both open failures halt the run with EXIT_FAILURE and nothing written
C7_FatalIOFailures ==
    /\ ~inputExists =>
          /\ pc \in {"main", "halted"}
          /\ opens[1] <= 1 /\ opens[2] = 0
          /\ outFile = "unset" /\ outText = <<>>
          /\ exitStatus # "EXIT_SUCCESS"
          /\ (pc = "halted" =>
                 /\ exitStatus = "EXIT_FAILURE"
                 /\ console = <<"Error: Unable to open input file">>)
    /\ (inputExists /\ ~outputWritable) =>
          /\ pc \in {"main", "readLoop", "readClose", "genOpen", "prologue", "halted"}
          /\ opens[1] <= 1 /\ opens[2] <= 1
          /\ outText = <<>>
          /\ exitStatus # "EXIT_SUCCESS"
          /\ (pc = "halted" =>
                 /\ exitStatus = "EXIT_FAILURE"
                 /\ console = <<"writePrologue error: output file == NULL">>)
    /\ (pc = "halted" => ~ENABLED Next)

C7_Witness ==
    /\ pc = "halted" /\ inputExists /\ ~outputWritable
    /\ noEdges >= 1
    /\ exitStatus = "EXIT_FAILURE"

(***************************************************************************)
(* C9.  From the return of readWireFrame on, no step changes a stored edge *)
(* matrix or the edge count.                                               *)
(***************************************************************************)
\* C9: the edge list and the edge count are written only by the loader
C9_EdgesImmutableAfterLoad ==
    [][(pc \in AfterLoad) => (wireFrame' = wireFrame /\ noEdges' = noEdges)]_vars

C9_Witness ==
    /\ pc = "done" /\ noEdges = MAX_WIREFRAME_EDGES
    /\ \A k \in 1 .. noEdges : wireFrame[k - 1] = EdgeOf(input[k])

(***************************************************************************)
(* C10.  No matrix cell is read before it is written; every counted edge   *)
(* has rows 0-3 of columns 0-1 set; while an instance is drawn, rows 0-1   *)
(* of M are what the composer yields from a fresh buffer and the instance's*)
(* parameters, and rows 2-3 of M have never been written.                  *)
(***************************************************************************)
\* C10: no cell is read before it is written, and M carries nothing over
C10_NoReadBeforeWrite ==
    /\ ~uninitRead
    /\ (pc \in AfterLoad) =>
          \A k \in 0 .. (noEdges - 1), i \in Idx, j \in 0 .. 1 :
              IsNum(wireFrame[k][i][j])
    /\ (pc = "draw") =>
          \E I \in {Instances[inst]} :
            \E F \in {computeTransformationMatrix(Uninit, Rat(I.scale), Rat(I.xt),
                                                  Rat(I.yt), Rat(I.zt))} :
                \A j \in Idx :
                    /\ M[0][j] = F[0][j] /\ IsNum(M[0][j])
                    /\ M[1][j] = F[1][j] /\ IsNum(M[1][j])
                    /\ M[2][j] = U /\ M[3][j] = U
    /\ \A n \in 1 .. Len(outText) :
          outText[n].tag = "line" =>
              "?" \notin {outText[n].x1[1], outText[n].y1[1],
                          outText[n].x2[1], outText[n].y2[1]}

C10_Witness ==
    /\ pc = "draw" /\ inst = 2 /\ edge >= 1
    /\ noEdges < MAX_WIREFRAME_EDGES
    /\ \E i \in Idx : IsNum(wireFrame[noEdges][i][0])

(***************************************************************************)
(* matMul on its own: one call on arbitrary arguments                      *)
(***************************************************************************)
MaxSeed == 1

\* a fully written matrix of small fractions, one for each seed
TestMatrix(seed) ==
    [i \in Idx |-> [j \in Idx |->
        Frac((((seed + 2) * (3 * i + j + 1)) % 7) - 3, 1 + ((i + j + seed) % 2))]]

\* a matrix whose rows 0-1 are written and whose rows 2-3 are not
HalfWritten(seed) ==
    [i \in Idx |-> [j \in Idx |-> IF i < 2 THEN TestMatrix(seed)[i][j] ELSE U]]

Shapes == 1 .. MATRIX_MAX

\* the run's variables, unused while a single function is exercised
RunIdle ==
    /\ inputExists = FALSE
    /\ outputWritable = FALSE
    /\ input = <<>>
    /\ inPos = 1
    /\ console = <<>>
    /\ exitStatus = "running"
    /\ uninitRead = FALSE
    /\ slots = {}
    /\ opens = <<0, 0>>
    /\ M = Uninit
    /\ R = Uninit
    /\ edge = 0
    /\ inst = 1
    /\ outText = <<>>

InitMat ==
    /\ RunIdle
    /\ rot = <<ROTATION_ANGLE_X, ROTATION_ANGLE_Y, ROTATION_ANGLE_Z>>
    /\ pc = "matMul"
    /\ wireFrame = [k \in 0 .. (MAX_WIREFRAME_EDGES - 1) |-> Uninit]
    /\ noEdges = 0
    /\ outFile = "unset"
    /\ xf = NoCall
    /\ \E sa \in 0 .. MaxSeed, sb \in 0 .. MaxSeed,
          c0 \in {Uninit} \cup {TestMatrix(MaxSeed + 1)} \cup {HalfWritten(0)},
          ar \in Shapes, ac \in Shapes, bc \in Shapes :
            mm = [A0 |-> TestMatrix(sa), B0 |-> TestMatrix(sb + MaxSeed + 1), C0 |-> c0,
                  A |-> TestMatrix(sa), B |-> TestMatrix(sb + MaxSeed + 1), C |-> c0,
                  ARows |-> ar, ACols |-> ac, BCols |-> bc, called |-> FALSE]

\* matMul(A, B, ARows, ACols, BCols, C), lines 127-136
MatMulCall ==
    /\ pc = "matMul" /\ ~mm.called
    /\ mm' = [mm EXCEPT !.C = matMul(mm.A, mm.B, mm.ARows, mm.ACols, mm.BCols, mm.C),
                        !.called = TRUE]
    /\ UNCHANGED <<rot, inputExists, outputWritable, input, inPos, pc, wireFrame, edge,
                   noEdges, outFile, outText, console, M, R, inst, exitStatus,
                   uninitRead, slots, opens, xf>>

SpecMat == InitMat /\ [][MatMulCall]_vars

(***************************************************************************)
(* C8.  matMul sets C[i][j] to the sum over k < ACols of A[i][k]*B[k][j]   *)
(* for i < ARows and j < BCols, whatever C held, keeps every other cell of *)
(* C, and leaves A and B as they were.                                     *)
(***************************************************************************)
\* A[i][0]*B[0][j] + ... + A[i][n-1]*B[n-1][j], written out for n = 1 .. 4
SumOfProducts(A, B, i, j, n) ==
    CASE n = 1 -> RMul(A[i][0], B[0][j])
      [] n = 2 -> RAdd(RMul(A[i][0], B[0][j]), RMul(A[i][1], B[1][j]))
      [] n = 3 -> RAdd(RAdd(RMul(A[i][0], B[0][j]), RMul(A[i][1], B[1][j])),
                       RMul(A[i][2], B[2][j]))
      [] n = 4 -> RAdd(RAdd(RAdd(RMul(A[i][0], B[0][j]), RMul(A[i][1], B[1][j])),
                            RMul(A[i][2], B[2][j])),
                       RMul(A[i][3], B[3][j]))


\* C8: the assigned cells are the sums of products; nothing else changes
C8_MatMulProductAndFrame ==
    (pc = "matMul" /\ mm.called) =>
        /\ mm.A = mm.A0 /\ mm.B = mm.B0
        /\ \A i \in Idx, j \in Idx :
              IF i < mm.ARows /\ j < mm.BCols
              THEN mm.C[i][j] = SumOfProducts(mm.A0, mm.B0, i, j, mm.ACols)
              ELSE mm.C[i][j] = mm.C0[i][j]

C8_Witness ==
    /\ pc = "matMul" /\ mm.called
    /\ mm.ARows = 2 /\ mm.ACols = 3 /\ mm.BCols = 2
    /\ IsNum(mm.C0[0][0]) /\ mm.C0[0][0] # Rat(0)
    /\ mm.C # mm.C0
    /\ mm.C[3][3] = mm.C0[3][3]

(***************************************************************************)
(* The composer followed by the renderer, on arbitrary instance parameters *)
(* and rotation angles                                                     *)
(***************************************************************************)
AngleConfigs ==
    { <<ROTATION_ANGLE_X, ROTATION_ANGLE_Y, ROTATION_ANGLE_Z>>,
      <<0, 0, 0>>,
      <<37, 90, -45>> }

RecC == <<1, 2, 3, -1, 0, 1>>

\* the matrix readWireFrame stores for the record rec
Loaded(rec) ==
    Set(Set(StoreScanned(Uninit, [i \in 1 .. 6 |-> ParseFloat(NumTok(rec[i]))], 1),
            3, 0, Rat(1)), 3, 1, Rat(1))

InitXf ==
    /\ RunIdle
    /\ rot \in AngleConfigs
    /\ pc = "xf"
    /\ \E rec \in {RecA, RecB, RecC} :
          wireFrame = [k \in 0 .. (MAX_WIREFRAME_EDGES - 1) |->
                          IF k = 0 THEN Loaded(rec) ELSE Uninit]
    /\ noEdges = 1
    /\ outFile = "open"
    /\ mm = NoCall
    /\ xf \in [scale : {1, 2, 200}, xt : {0, 125}, yt : {0, 7}, zt : {0, 125}]

\* computeTransformationMatrix(M, scale, xt, yt, zt), then the entry of drawWireframe
XfCompose ==
    /\ pc = "xf"
    /\ M' = computeTransformationMatrix(M, Rat(xf.scale), Rat(xf.xt), Rat(xf.yt),
                                        Rat(xf.zt))
    /\ uninitRead' = (uninitRead \/ composeReadsUninit(Rat(xf.scale), Rat(xf.xt),
                                                        Rat(xf.yt), Rat(xf.zt)))
    /\ R' = Uninit
    /\ edge' = 0
    /\ pc' = "draw"
    /\ UNCHANGED <<rot, inputExists, outputWritable, input, inPos, wireFrame, noEdges,
                   outFile, outText, console, inst, exitStatus, slots, opens, mm, xf>>

NextXf == XfCompose \/ DrawEdge

SpecXf == InitXf /\ [][NextXf]_vars

(***************************************************************************)
(* C5.  The matrix computeTransformationMatrix returns is the product      *)
(* P * T * S * Rx * Ry * Rz in that order, S built with (scale, scale,     *)
(* -scale): its rows 0-1 are the rows of the product, and it maps every    *)
(* point p to (scale*x' + xt, -scale*z' + zt), (x',y',z') = Rx*Ry*Rz*p.    *)
(***************************************************************************)
\* the 4x4 product A * B
Product(A, B) ==
    The({ [i \in Idx |-> [j \in Idx |-> Dot(a, i, b, j)]] : a \in {A}, b \in {B} })

\* ((((P * T) * S) * Rx) * Ry) * Rz for the parameters in xf and the angles in rot
ClaimedProduct ==
    Product(Product(Product(Product(Product(
        projectionMatrix(Uninit),
        translationMatrix(Rat(xf.xt), Rat(xf.yt), Rat(xf.zt), Uninit)),
        scalingMatrix(Rat(xf.scale), Rat(xf.scale), Rat(-xf.scale), Uninit)),
        rotationMatrixX(rot[1], Uninit)),
        rotationMatrixY(rot[2], Uninit)),
        rotationMatrixZ(rot[3], Uninit))

TestPoints == {<<0, 0, 0>>, <<1, 0, 0>>, <<0, 1, 0>>, <<0, 0, 1>>, <<1, 2, 3>>, <<-2, 1, 5>>}

\* row i of M applied to the homogeneous point (p, 1)
Applied(i, p) ==
    RAdd(RAdd(RAdd(RMul(M[i][0], Rat(p[1])), RMul(M[i][1], Rat(p[2]))),
              RMul(M[i][2], Rat(p[3]))),
         M[i][3])


\* C5: M = P * T * S * Rx * Ry * Rz, and M maps p to (scale*x' + xt, -scale*z' + zt)
C5_ComposedInOrder ==
    (pc = "draw") =>
        /\ \E Q \in {ClaimedProduct} :
              \A i \in 0 .. 1, j \in Idx : M[i][j] = Q[i][j] /\ IsNum(M[i][j])
        /\ \A p \in TestPoints :
              \E q \in {Screen(xf.scale, xf.xt, xf.zt, <<Rat(p[1]), Rat(p[2]), Rat(p[3])>>)} :
                  Applied(0, p) = q[1] /\ Applied(1, p) = q[2]

C5_Witness ==
    /\ pc = "draw"
    /\ rot = <<37, 90, -45>>
    /\ xf.scale = 200 /\ xf.xt = 125 /\ xf.yt = 7 /\ xf.zt = 125
    /\ IsNum(M[1][3])

(***************************************************************************)
(* C6.  Identity parameters: scale = 1, xt = yt = zt = 0, all angles 0.    *)
(***************************************************************************)
IdentityParameters ==
    /\ xf = [scale |-> 1, xt |-> 0, yt |-> 0, zt |-> 0]
    /\ rot = <<0, 0, 0>>

\* the one edge of the list has just been rendered
Rendered == pc = "draw" /\ edge = 1 /\ Len(outText) = 1

\* C6 as claimed: the edge (x1,y1,z1)-(x2,y2,z2) is emitted as (x1,z1)-(x2,z2)
C6_NoOpUnderIdentity ==
    (Rendered /\ IdentityParameters) =>
        \E E \in {wireFrame[0]} :
            outText[1] = LineOf(<<E[0][0], E[2][0]>>, <<E[0][1], E[2][1]>>,
                                OBJECT_COLOR_0)

\* C6 as amended: the edge (x1,y1,z1)-(x2,y2,z2) is emitted as (x1,-z1)-(x2,-z2),
\* exactly one primitive; the record 0 0 0 1 0 0 yields (0,0)-(1,0), printed
\* as 0.0 0.0 1.0 0.0
C6_FlipsZUnderIdentity ==
    (Rendered /\ IdentityParameters) =>
        /\ \E E \in {wireFrame[0]} :
              outText[1] = LineOf(<<E[0][0], RNeg(E[2][0])>>, <<E[0][1], RNeg(E[2][1])>>,
                                  OBJECT_COLOR_0)
        /\ (wireFrame[0] = EdgeOf(Line(RecA)) =>
               outText = << [tag |-> "line", x1 |-> <<"", 0>>, y1 |-> <<"", 0>>,
                             x2 |-> <<"", 10>>, y2 |-> <<"", 0>>,
                             stroke |-> "magenta"] >>)

C6_Witness ==
    /\ Rendered /\ IdentityParameters
    /\ wireFrame[0] = EdgeOf(Line(RecC))
    /\ outText[1].y1 = <<"-", 30>>

====
